---- MODULE Spec2Model ----
(***************************************************************************)
(* Rubik's cube game: the scene tree (sceneTree.js), the rotation engine   *)
(* and the input mapper (the main script), as a state machine.             *)
(*                                                                         *)
(* Nodes are numbers: the 27 cublets are 0..26 (a cublet's number is the   *)
(* slot index (x*9)+(y*3)+z it is created at), then the cubelets           *)
(* container, the pivot "temp" and the root cube node.                     *)
(***************************************************************************)
EXTENDS Integers, Sequences, FiniteSets, TLC

VARIABLES
    children,                \* node -> ordered child list        (obj.children)
    parent,                  \* node -> parent node or NULL       (obj.parent)
    localTransform,          \* node -> local transform           (obj.localTransform)
    cubeletsBeforeRotation,  \* GLB.cubeletsBeforeRotation: a list, NullList or UndefList
    cubletsToRotate,         \* GLB.cubletsToRotate: a list (UNDEF entries possible), NullList or UndefList
    curRotation,             \* GLB.curRotation: NoRotation or <<name, clockwise>>
    timeSinceRotationStart,  \* GLB.timeSinceRotationStart: UNDEF, NULL or ms
    rotationCountDown,       \* GLB.rotationCountDown (ms)
    keyState,                \* KeyInputManager.state: the key names whose entry is true
    frameLoop,               \* TRUE while runFrame keeps being rescheduled
    threw,                   \* the last handler ended by throwing
    calls,                   \* rotateState of the rotateRubiksCubeSide calls made for the current
                             \* command by updateRubiksCube (a run of DO_ROTATE is entered once)
    selected,                \* the cublets the current command took at its first START_ROTATE
    history,                 \* the rotations carried out whole so far, <<name, clockwise>> each
    prevSlots,               \* the container's child list before the last of them
    prevTransform,           \* the local transforms before the last of them
    shuffleSlots,            \* the child list the accepted commands give when applied as the
                             \* shuffle applies them
    lastCall,                \* the scene-tree method called last, with the tree before the call
    nCommands, nClicks,      \* commands accepted / Shuffle clicks so far
    sinceAccept,             \* ms: the frame deltas the input mapper has been called with
                             \* since it last accepted a command, summed up to the
                             \* cooldown; atAccept: that sum in the frame of that command
    enteredDrag,             \* ClickAndDragHandler's enteredDrag: a drag of the canvas is on
                             \* and onMouse's three key listeners are installed
    initPc,                  \* where the load handler init is: "load" (awaiting a load in
                             \* initGameWorld), "rejected", "pending", "world" (initGameWorld
                             \* has returned), "events" (initEvents has run), "run" (runFrame
                             \* has been called and the frame loop goes)
    loaded,                  \* the loads awaited so far that have resolved
    loadFailed,              \* one of the loads did not get its asset
    mouseListeners,          \* the mouse event types ClickAndDragHandler listens to on the canvas
    keyListeners,            \* KeyInputManager.allListeners: key name -> how many listeners
    removes,                 \* onMouse's self.removes: "undefined", or its three remove
                             \* functions are "live" (not called yet) or "removed"
    dragProtocol,            \* where the callbacks made so far leave a drag: "out" (none
                             \* open), "in" (an "enter" that returned true has had no "exit"
                             \* yet), "broken" (a callback came out of this order)
    physicalDown             \* the physical keys held down (PressKey and ReleaseKey)

vars == <<children, parent, localTransform, cubeletsBeforeRotation, cubletsToRotate,
          curRotation, timeSinceRotationStart, rotationCountDown, keyState, frameLoop,
          threw, calls, selected, history, prevSlots, prevTransform, shuffleSlots,
          lastCall,
          nCommands, nClicks, sinceAccept, enteredDrag,
          initPc, loaded, loadFailed,
          mouseListeners, keyListeners, removes, dragProtocol, physicalDown>>

-----------------------------------------------------------------------------
(* Bounds of the model. *)

\* rotations carried out in the rotation-engine specification
MaxMoves == 2
\* ... and how often one rotation may be repeated from the start beyond that
MaxRepeat == 4
\* rotation commands accepted from the keyboard in the game specification
MaxCommands == 2
\* clicks on the Shuffle button in the game specification
MaxClicks == 1
\* nodes of the scene-tree specification
MaxNodes == 3
\* length of the list handed to setChildren in the scene-tree specification
MaxLen == 2

-----------------------------------------------------------------------------
(* Values. *)

NULL == -1      \* JavaScript null
UNDEF == -2     \* JavaScript undefined (array read past the end, array hole)

CUBELETS == 27  \* GLB.cubelets
TEMP == 28      \* GLB.temp
RUBIKS == 29    \* GLB.rubiksCube

\* a variable that holds a list or null keeps null as NullList, undefined as UndefList
\* (no list of the program has NULL in it); GLB.curRotation keeps null as <<>>
NullList == <<NULL>>
UndefList == <<NULL, NULL>>
NoList(v) == v = NullList \/ v = UndefList
NoRotation == <<>>

Cublets == 0..26
GameNodes == 0..29

ROTATIONS == <<"left", "x-middle", "right",
               "front", "z-middle", "back",
               "up", "y-middle", "down">>

ROTATION_KEYS == <<"g", "x", "b", "r", "z", "o", "u", "y", "d">>

ROTATE_CLOCKWISE_KEY == "Shift"

\* the keys that change how a drag of the canvas orbits the cube
ROTATE_Z_KEY == "Meta"
LOCK_AXIS_KEY == "Shift"
LOCK_STEP_KEY == "Alt"

MOUSE_DOWN == "mousedown"
MOUSE_MOVE == "mousemove"
MOUSE_UP == "mouseup"
MOUSE_LEAVE == "mouseleave"

\* the keys onMouse adds updateTransform as a listener for
DragKeys == {ROTATE_Z_KEY, LOCK_AXIS_KEY, LOCK_STEP_KEY}

\* the models initGameWorld awaits: corner, edge, center
NumModels == 3
\* the entries of cubletTextures that are not null
NumTextures == 26

ROTATION_TIME_MS == 300

START_ROTATE == 0
DO_ROTATE == 1
END_ROTATE == 2

ROTATION_COOLDOWN_MS == 200

-----------------------------------------------------------------------------
(* Transforms.  Every matrix the engine bakes into a cublet is a product   *)
(* of quarter turns about the cube's centre, so a transform is kept        *)
(* exactly.  The rotation matrix m of a product of quarter turns has one   *)
(* entry 1 or -1 in each column and is kept by its columns: m[j] = r means *)
(* that column j has 1 in row r, m[j] = -r that it has -1 there (rows and  *)
(* columns 1, 2, 3 are x, y, z).  k is a further turn about the canonical  *)
(* spin axis [-1,0,0], applied after m (on the right), in units of 1/300   *)
(* of a quarter turn: one unit per ms of ROTATION_TIME_MS.  A cublet's     *)
(* local transform is held relative to the transform it was created with:  *)
(* G stands for G x initialLocal, which is exact because the engine only   *)
(* ever multiplies a cublet's transform from the left.  A product that     *)
(* cannot be written so is the value Other.                                *)

Abs(n) == IF n < 0 THEN -n ELSE n
Sgn(n) == IF n < 0 THEN -1 ELSE 1

IdM == <<1, 2, 3>>

\* the matrix product A x B
MatMul(A, B) == [j \in 1..3 |-> Sgn(B[j]) * A[Abs(B[j])]]

\* the transpose, which is the inverse
MatT(A) == [r \in 1..3 |-> LET j == CHOOSE c \in 1..3 : Abs(A[c]) = r IN Sgn(A[j]) * j]

\* the rotation matrix of angleAxisToMat4(90, axis): a right-handed quarter turn
\*   about y: x -> -z, z -> x;  about z: x -> y, y -> -x;  about -x: y -> -z, z -> y
QuarterTurn(axis) ==
    CASE axis = <<0, 1, 0>>  -> <<-3, 2, 1>>
      [] axis = <<0, 0, 1>>  -> <<2, -1, 3>>
      [] axis = <<-1, 0, 0>> -> <<1, -3, 2>>

SpinQ == QuarterTurn(<<-1, 0, 0>>)

Tf(m, k) == [ok |-> TRUE, orb |-> FALSE, m |-> m, k |-> k]
Other == [ok |-> FALSE, orb |-> FALSE, m |-> IdM, k |-> 0]

\* the root cube node's local transform: the free orbit, whatever it is
Orbit == [ok |-> TRUE, orb |-> TRUE, m |-> IdM, k |-> 0]

\* m is a turn about the x axis, so it commutes with the spin
AboutSpinAxis(m) == m[1] = 1

\* whole quarter turns of the spin are folded into the matrix
Norm(t) ==
    IF ~t.ok THEN Other
    ELSE IF t.k >= ROTATION_TIME_MS
         THEN [t EXCEPT !.m = MatMul(t.m, SpinQ), !.k = t.k - ROTATION_TIME_MS]
    ELSE IF t.k <= -ROTATION_TIME_MS
         THEN [t EXCEPT !.m = MatMul(t.m, MatT(SpinQ)), !.k = t.k + ROTATION_TIME_MS]
    ELSE t

identityMat4 == Tf(IdM, 0)

\* Mat4.multiply(out, a, b) = a x b
Mat4Multiply(a, b) ==
    IF ~a.ok \/ ~b.ok THEN Other
    ELSE IF b.orb THEN (IF a = identityMat4 THEN b ELSE Other)
    ELSE IF a.k = 0 THEN [a EXCEPT !.m = MatMul(a.m, b.m), !.k = b.k]
    ELSE IF AboutSpinAxis(b.m) THEN Norm([a EXCEPT !.m = MatMul(a.m, b.m), !.k = a.k + b.k])
    ELSE Other

\* multiplyMat4(a, b): a becomes a x b
multiplyMat4(a, b) == Mat4Multiply(a, b)

\* Mat4.invert(out, a), for a transform without the orbit in it
Mat4Invert(a) ==
    IF ~a.ok \/ a.orb THEN Other
    ELSE IF a.k = 0 THEN Tf(MatT(a.m), 0)
    ELSE IF AboutSpinAxis(a.m) THEN Tf(MatT(a.m), -a.k)
    ELSE Other

\* Mat4.multiply(out, Mat4.invert(out, a), b): the orbit cancels when both hold it
InvertThenMultiply(a, b) ==
    IF ~a.ok \/ ~b.ok \/ a.orb # b.orb THEN Other
    ELSE Mat4Multiply(Mat4Invert([a EXCEPT !.orb = FALSE]), [b EXCEPT !.orb = FALSE])

\* angleAxisToMat4(angle, [-1, 0, 0]) with angle = 90 * spinMs / 300 degrees
angleAxisToMat4(spinMs) == Norm(Tf(IdM, spinMs))

\* rotateMat4(identityMat4(), 90, axis)
rotateMat4(matrix, axis) == Mat4Multiply(matrix, Tf(QuarterTurn(axis), 0))

-----------------------------------------------------------------------------
(* The scene tree.  A heap h is a record with the fields ch (children),    *)
(* par (parent), xf (localTransform) and err (an exception is in flight);  *)
(* every operation returns the heap it leaves, and does nothing once an    *)
(* exception is in flight.                                                 *)

Throw(h) == [h EXCEPT !.err = TRUE]

\* Array.prototype.indexOf, 1-based; 0 when absent
IndexOf(seq, x) ==
    IF \E i \in 1..Len(seq) : seq[i] = x
    THEN CHOOSE i \in 1..Len(seq) : seq[i] = x /\ \A j \in 1..(i - 1) : seq[j] # x
    ELSE 0

\* Array.prototype.splice(i, 1), i 1-based
Splice(seq, i) == SubSeq(seq, 1, i - 1) \o SubSeq(seq, i + 1, Len(seq))

\* mutant: the child is taken even when it already has a parent
addChildWithoutParentCheck(h, this, child) ==
    IF h.err THEN h
    ELSE IF child = UNDEF THEN Throw(h)
    ELSE [h EXCEPT !.par[child] = this, !.ch[this] = Append(@, child)]

addChild(h, this, child) ==
    IF h.err THEN h
    ELSE IF child = UNDEF THEN Throw(h)
    ELSE IF h.par[child] # NULL THEN Throw(h)
    ELSE [h EXCEPT !.par[child] = this, !.ch[this] = Append(@, child)]

removeChild(h, this, child) ==
    IF h.err THEN h
    ELSE LET i == IndexOf(h.ch[this], child) IN
         IF i = 0 THEN Throw(h)
         ELSE [h EXCEPT !.ch[this] = Splice(@, i), !.par[child] = NULL]

\* index is 0-based, as in the code
removeChildAt(h, this, index) ==
    IF h.err THEN h
    ELSE IF index < 0 THEN Throw(h)
    ELSE IF index >= Len(h.ch[this]) THEN Throw(h)
    ELSE LET child == h.ch[this][index + 1] IN
         [h EXCEPT !.ch[this] = Splice(@, index + 1), !.par[child] = NULL]

\* for (i = length - 1; i >= 0; --i) this.removeChildAt(i): every index is in range, so
\* no call throws, and the loop leaves no children and clears each one's parent
RemoveAllChildren(h, this) ==
    LET old == {h.ch[this][i] : i \in 1..Len(h.ch[this])} IN
    [h EXCEPT !.ch[this] = <<>>,
              !.par = [n \in DOMAIN h.par |-> IF n \in old THEN NULL ELSE h.par[n]]]

RECURSIVE AddAllChildren(_, _, _, _)
AddAllChildren(h, this, newChildren, i) ==
    IF i > Len(newChildren) \/ h.err THEN h
    ELSE AddAllChildren(addChild(h, this, newChildren[i]), this, newChildren, i + 1)

\* the duplicate check reads child._id of every entry, in order: an undefined
\* entry throws a TypeError, a repeated id throws "newChildren contains duplicates."
DuplicateCheckThrows(newChildren) ==
    \E i \in 1..Len(newChildren) :
        newChildren[i] = UNDEF \/ \E j \in 1..(i - 1) : newChildren[j] = newChildren[i]

setChildren(h, this, newChildren) ==
    IF h.err THEN h
    ELSE IF DuplicateCheckThrows(newChildren) THEN Throw(h)
    ELSE AddAllChildren(RemoveAllChildren(h, this), this, newChildren, 1)

\* the "transform" getter: the world transform
RECURSIVE Transform(_, _)
Transform(h, n) ==
    IF h.par[n] = NULL THEN h.xf[n]
    ELSE Mat4Multiply(Transform(h, h.par[n]), h.xf[n])

SetLocalTransform(h, child, newTransform) ==
    IF h.err THEN h ELSE [h EXCEPT !.xf[child] = newTransform]

\* the part of switchParentKeepTransform after newTransform has been computed
Reparent(h, child, oldParent, newParent, noSwitch, newTransform) ==
    IF noSwitch THEN SetLocalTransform(h, child, newTransform)
    ELSE addChild(SetLocalTransform(removeChild(h, oldParent, child), child, newTransform),
                  newParent, child)

\* mutant: the two factors of the new local transform are multiplied the other way round
switchParentFactorsSwapped(h, child, oldParent, newParent, noSwitch) ==
    IF h.err THEN h
    ELSE IF child = UNDEF THEN Throw(h)
    ELSE Reparent(h, child, oldParent, newParent, noSwitch,
                  Mat4Multiply(Transform(h, child),
                               InvertThenMultiply(Transform(h, newParent), Orbit)))

\* mutant: the new local transform is taken relative to the old parent
switchParentRelativeToOldParent(h, child, oldParent, newParent, noSwitch) ==
    IF h.err THEN h
    ELSE IF child = UNDEF THEN Throw(h)
    ELSE Reparent(h, child, oldParent, newParent, noSwitch,
                  InvertThenMultiply(Transform(h, oldParent), Transform(h, child)))

\* mutant: the transform is updated but the parent is never switched
switchParentNeverSwitches(h, child, oldParent, newParent, noSwitch) ==
    IF h.err THEN h
    ELSE IF child = UNDEF THEN Throw(h)
    ELSE Reparent(h, child, oldParent, newParent, TRUE,
                  InvertThenMultiply(Transform(h, newParent), Transform(h, child)))

switchParentKeepTransform(h, child, oldParent, newParent, noSwitch) ==
    IF h.err THEN h
    ELSE IF child = UNDEF THEN Throw(h)
    ELSE Reparent(h, child, oldParent, newParent, noSwitch,
                  InvertThenMultiply(Transform(h, newParent), Transform(h, child)))

-----------------------------------------------------------------------------
(* The rotation-info resolver. *)

\* mutant: the clockwise table sends the middle of the layer to the middle of a side
MappingsClockwiseMiddleMoved ==
    << <<2, 0>>, <<2, 1>>, <<2, 2>>,
       <<1, 1>>, <<1, 0>>, <<1, 2>>,
       <<0, 0>>, <<0, 1>>, <<0, 2>> >>

\* mutant: one entry of the clockwise table repeats another
MappingsClockwiseRepeated ==
    << <<2, 0>>, <<2, 1>>, <<2, 2>>,
       <<1, 0>>, <<1, 1>>, <<1, 2>>,
       <<0, 0>>, <<0, 1>>, <<0, 1>> >>

\* Relative to the coordinate space not relative to the center of the cube.
ROTATION_MAPPINGS_CLOCKWISE ==
    << <<2, 0>>, <<2, 1>>, <<2, 2>>,
       <<1, 0>>, <<1, 1>>, <<1, 2>>,
       <<0, 0>>, <<0, 1>>, <<0, 2>> >>

\* mutant: the counter-clockwise table is a copy of the clockwise one
MappingsCounterClockwiseCopied ==
    << <<2, 0>>, <<2, 1>>, <<2, 2>>,
       <<1, 0>>, <<1, 1>>, <<1, 2>>,
       <<0, 0>>, <<0, 1>>, <<0, 2>> >>

ROTATION_MAPPINGS_COUNTER_CLOCKWISE ==
    << <<0, 2>>, <<0, 1>>, <<0, 0>>,
       <<1, 2>>, <<1, 1>>, <<1, 0>>,
       <<2, 2>>, <<2, 1>>, <<2, 0>> >>

\* pos is a function on the axes 0 (x), 1 (y), 2 (z)
cubletPositionToIndex(pos) == (pos[0] * 9) + (pos[1] * 3) + pos[2]

\* the position with pos[axisI] = i, pos[axisJ] = j, pos[lockedAxis] = lockedValue,
\* assigned in that order
MakePos(axisI, i, axisJ, j, lockedAxis, lockedValue) ==
    [a \in 0..2 |-> IF a = lockedAxis THEN lockedValue
                    ELSE IF a = axisJ THEN j
                    ELSE i]

\* mutant: the mapping is looked up at (i * 3) + j
getIndicesRowColumnSwapped(axisI, axisJ, lockedAxis, lockedValue, rotateClockwise) ==
    LET mappings == IF rotateClockwise THEN ROTATION_MAPPINGS_CLOCKWISE
                    ELSE ROTATION_MAPPINGS_COUNTER_CLOCKWISE
        I(k) == (k - 1) \div 3
        J(k) == (k - 1) % 3
        indices == [k \in 1..9 |->
            cubletPositionToIndex(MakePos(axisI, I(k), axisJ, J(k), lockedAxis, lockedValue))]
        newIndices == [k \in 1..9 |->
            LET new == mappings[(I(k) * 3) + J(k) + 1] IN
            cubletPositionToIndex(MakePos(axisI, new[1], axisJ, new[2], lockedAxis, lockedValue))]
    IN  <<indices, newIndices>>

\* the k-th pass (k = 1..9) of the double loop has i = (k-1) \div 3, j = (k-1) % 3
getIndicesOfCubletsToRotate(axisI, axisJ, lockedAxis, lockedValue, rotateClockwise) ==
    LET mappings == IF rotateClockwise THEN ROTATION_MAPPINGS_CLOCKWISE
                    ELSE ROTATION_MAPPINGS_COUNTER_CLOCKWISE
        I(k) == (k - 1) \div 3
        J(k) == (k - 1) % 3
        indices == [k \in 1..9 |->
            cubletPositionToIndex(MakePos(axisI, I(k), axisJ, J(k), lockedAxis, lockedValue))]
        newIndices == [k \in 1..9 |->
            LET new == mappings[(J(k) * 3) + I(k) + 1] IN
            cubletPositionToIndex(MakePos(axisI, new[1], axisJ, new[2], lockedAxis, lockedValue))]
    IN  <<indices, newIndices>>

\* mutant: every rotation but "x-middle" negates rotateClockwise
InvertsAllButXMiddle(rotation) == rotation # "x-middle"

\* the branches of getRotationInfo that negate rotateClockwise
InvertsClockwise(rotation) == rotation \in {"x-middle", "right", "back", "up", "y-middle"}

\* the arguments each branch of getRotationInfo hands to getIndicesOfCubletsToRotate,
\* and its alignment axis
NoAxis == <<>>   \* axis = null

\* mutant: "right" turns the slots of the layer z = 2
RotationLayerRightLocksZ(rotation) ==
    CASE rotation = "left"     -> [axisI |-> 1, axisJ |-> 2, lockedAxis |-> 0, lockedValue |-> 0, axis |-> NoAxis]
      [] rotation = "x-middle" -> [axisI |-> 1, axisJ |-> 2, lockedAxis |-> 0, lockedValue |-> 1, axis |-> NoAxis]
      [] rotation = "right"    -> [axisI |-> 1, axisJ |-> 0, lockedAxis |-> 2, lockedValue |-> 2, axis |-> NoAxis]
      [] rotation = "front"    -> [axisI |-> 1, axisJ |-> 0, lockedAxis |-> 2, lockedValue |-> 2, axis |-> <<0, 1, 0>>]
      [] rotation = "z-middle" -> [axisI |-> 1, axisJ |-> 0, lockedAxis |-> 2, lockedValue |-> 1, axis |-> <<0, 1, 0>>]
      [] rotation = "back"     -> [axisI |-> 1, axisJ |-> 0, lockedAxis |-> 2, lockedValue |-> 0, axis |-> <<0, 1, 0>>]
      [] rotation = "up"       -> [axisI |-> 2, axisJ |-> 0, lockedAxis |-> 1, lockedValue |-> 2, axis |-> <<0, 0, 1>>]
      [] rotation = "y-middle" -> [axisI |-> 2, axisJ |-> 0, lockedAxis |-> 1, lockedValue |-> 1, axis |-> <<0, 0, 1>>]
      [] rotation = "down"     -> [axisI |-> 2, axisJ |-> 0, lockedAxis |-> 1, lockedValue |-> 0, axis |-> <<0, 0, 1>>]

RotationLayer(rotation) ==
    CASE rotation = "left"     -> [axisI |-> 1, axisJ |-> 2, lockedAxis |-> 0, lockedValue |-> 0, axis |-> NoAxis]
      [] rotation = "x-middle" -> [axisI |-> 1, axisJ |-> 2, lockedAxis |-> 0, lockedValue |-> 1, axis |-> NoAxis]
      [] rotation = "right"    -> [axisI |-> 1, axisJ |-> 2, lockedAxis |-> 0, lockedValue |-> 2, axis |-> NoAxis]
      [] rotation = "front"    -> [axisI |-> 1, axisJ |-> 0, lockedAxis |-> 2, lockedValue |-> 2, axis |-> <<0, 1, 0>>]
      [] rotation = "z-middle" -> [axisI |-> 1, axisJ |-> 0, lockedAxis |-> 2, lockedValue |-> 1, axis |-> <<0, 1, 0>>]
      [] rotation = "back"     -> [axisI |-> 1, axisJ |-> 0, lockedAxis |-> 2, lockedValue |-> 0, axis |-> <<0, 1, 0>>]
      [] rotation = "up"       -> [axisI |-> 2, axisJ |-> 0, lockedAxis |-> 1, lockedValue |-> 2, axis |-> <<0, 0, 1>>]
      [] rotation = "y-middle" -> [axisI |-> 2, axisJ |-> 0, lockedAxis |-> 1, lockedValue |-> 1, axis |-> <<0, 0, 1>>]
      [] rotation = "down"     -> [axisI |-> 2, axisJ |-> 0, lockedAxis |-> 1, lockedValue |-> 0, axis |-> <<0, 0, 1>>]

\* what getRotationInfo returns, as a record, and the factor with it
RotationInfo(L, factor, both, interpolation) ==
    [alignmentMatrix |-> IF L.axis # NoAxis THEN rotateMat4(identityMat4, L.axis)
                         ELSE identityMat4,
     rotationMatrix  |-> angleAxisToMat4(factor * interpolation),
     factor          |-> factor,
     indices         |-> both[1],
     newIndices      |-> both[2]]

\* mutant: the spin turns the other way round
ResolveLayerSpinReversed(L, clockwise, interpolation) ==
    RotationInfo(L, IF clockwise THEN 1 ELSE -1,
                 getIndicesOfCubletsToRotate(L.axisI, L.axisJ, L.lockedAxis, L.lockedValue,
                                             clockwise),
                 interpolation)

\* getRotationInfo once rotateClockwise has or has not been negated
ResolveLayer(L, clockwise, interpolation) ==
    RotationInfo(L, IF clockwise THEN -1 ELSE 1,
                 getIndicesOfCubletsToRotate(L.axisI, L.axisJ, L.lockedAxis, L.lockedValue,
                                             clockwise),
                 interpolation)

\* interpolation is given in ms of ROTATION_TIME_MS: 0 is 0.0 and 300 is 1.0
getRotationInfo(rotation, rotateClockwise, interpolation) ==
    ResolveLayer(RotationLayer(rotation),
                 IF InvertsClockwise(rotation) THEN ~rotateClockwise ELSE rotateClockwise,
                 interpolation)

-----------------------------------------------------------------------------
(* The rotation executor.  The heap also has the fields before              *)
(* (GLB.cubeletsBeforeRotation) and toRotate (GLB.cubletsToRotate).         *)

\* array read: undefined past the end
At(arr, i) == IF i >= 0 /\ i < Len(arr) THEN arr[i + 1] ELSE UNDEF

RECURSIVE SwitchAll(_, _, _, _, _, _)
SwitchAll(h, list, i, oldParent, newParent, noSwitch) ==
    IF i > Len(list) \/ h.err THEN h
    ELSE SwitchAll(switchParentKeepTransform(h, list[i], oldParent, newParent, noSwitch),
                   list, i + 1, oldParent, newParent, noSwitch)

\* arr[i] = v: a write past the end lengthens the array and leaves holes
WriteAt(arr, i, v) ==
    IF i < Len(arr) THEN [arr EXCEPT ![i + 1] = v]
    ELSE arr \o [k \in 1..(i - Len(arr)) |-> UNDEF] \o <<v>>

\* for (i = 0; i < indices.length; ++i) newCubelets[newIndices[i]] = temp[indices[i]]
RECURSIVE PermuteLoop(_, _, _, _, _)
PermuteLoop(newCubelets, temp, indices, newIndices, i) ==
    IF i > Len(indices) THEN newCubelets
    ELSE PermuteLoop(WriteAt(newCubelets, newIndices[i], At(temp, indices[i])),
                     temp, indices, newIndices, i + 1)

\* temp is the copy of the list taken before the loop
PermuteSlots(old, indices, newIndices) == PermuteLoop(old, old, indices, newIndices, 1)

\* indices.map(i => GLB.cubeletsBeforeRotation[i])
Select(before, indices) == [k \in 1..Len(indices) |-> At(before, indices[k])]

MoveToPivot(h, info, toRotate) ==
    SwitchAll([h EXCEPT !.before = h.ch[CUBELETS], !.toRotate = toRotate,
                        !.xf[TEMP] = info.alignmentMatrix],
              toRotate, 1, CUBELETS, TEMP, FALSE)

StartRotate(h, info) == MoveToPivot(h, info, Select(h.ch[CUBELETS], info.indices))

\* GLB.temp.localTransform = identityMat4(); GLB.temp.setChildren([])
ClearPivot(h) ==
    IF h.err THEN h
    ELSE setChildren([h EXCEPT !.xf[TEMP] = identityMat4], TEMP, <<>>)

\* newCubelets = GLB.cubeletsBeforeRotation, which becomes null; newCubelets.slice()
\* throws on null; then the index loop and GLB.cubelets.setChildren(newCubelets)
WriteSlots(h, info) ==
    IF h.err THEN h
    ELSE IF NoList(h.before) THEN Throw([h EXCEPT !.before = NullList])
    ELSE setChildren([h EXCEPT !.before = NullList], CUBELETS,
                     PermuteSlots(h.before, info.indices, info.newIndices))

\* GLB.cubletsToRotate = null
ClearToRotate(h) == IF h.err THEN h ELSE [h EXCEPT !.toRotate = NullList]

\* mutant: the cublets go back to the container with the local transform they had
\* under the pivot
EndRotateKeepsPivotLocal(h, info) ==
    IF NoList(h.toRotate) THEN Throw(h)
    ELSE ClearToRotate(WriteSlots(ClearPivot(h), info))

EndRotate(h, info) ==
    \* for (const cublet of GLB.cubletsToRotate): null is not iterable
    IF NoList(h.toRotate) THEN Throw(h)
    ELSE ClearToRotate(
             WriteSlots(ClearPivot(SwitchAll(h, h.toRotate, 1, TEMP, CUBELETS, TRUE)),
                        info))

\* GLB.temp.localTransform = alignmentMatrix; multiplyMat4(.., rotationMatrix)
SpinPivot(h, info) ==
    [h EXCEPT !.xf[TEMP] = multiplyMat4(info.alignmentMatrix, info.rotationMatrix)]

\* rotateRubiksCubeSide with the result of getRotationInfo
RotateState(h, info, rotateState) ==
    IF rotateState = START_ROTATE THEN StartRotate(h, info)
    ELSE IF rotateState = END_ROTATE THEN EndRotate(SpinPivot(h, info), info)
    ELSE SpinPivot(h, info)

rotateRubiksCubeSide(h, rotation, rotateClockwise, interpolation, rotateState) ==
    IF h.err THEN h
    ELSE RotateState(h, getRotationInfo(rotation, rotateClockwise, interpolation),
                     rotateState)

\* one pass of the loop of shuffleRubiksCube
ShuffleOnce(h, rotation, rotateClockwise) ==
    rotateRubiksCubeSide(
        rotateRubiksCubeSide(
            rotateRubiksCubeSide(h, rotation, rotateClockwise, 0, START_ROTATE),
            rotation, rotateClockwise, ROTATION_TIME_MS, DO_ROTATE),
        rotation, rotateClockwise, ROTATION_TIME_MS, END_ROTATE)

-----------------------------------------------------------------------------
(* The state as a heap, and back. *)

Heap == [ch |-> children, par |-> parent, xf |-> localTransform,
         before |-> cubeletsBeforeRotation, toRotate |-> cubletsToRotate, err |-> FALSE]

SetHeap(h) ==
    /\ children' = h.ch
    /\ parent' = h.par
    /\ localTransform' = h.xf
    /\ cubeletsBeforeRotation' = h.before
    /\ cubletsToRotate' = h.toRotate
    /\ threw' = h.err

NoCall == [method |-> "none", ch |-> <<>>, par |-> <<>>]

InitialSlots == [k \in 1..27 |-> k - 1]

\* initGlobals and initGameWorld: the 27 cublets are added to the container in slot
\* order; the container and the pivot are children of the root cube node.  (The world
\* node above the root has the identity transform and the camera takes no part.)
InitGame ==
    /\ children = [n \in GameNodes |->
                      IF n = CUBELETS THEN InitialSlots
                      ELSE IF n = RUBIKS THEN <<CUBELETS, TEMP>>
                      ELSE <<>>]
    /\ parent = [n \in GameNodes |->
                      IF n \in Cublets THEN CUBELETS
                      ELSE IF n = RUBIKS THEN NULL
                      ELSE RUBIKS]
    /\ localTransform = [n \in GameNodes |-> IF n = RUBIKS THEN Orbit ELSE identityMat4]
    /\ cubeletsBeforeRotation = UndefList
    /\ cubletsToRotate = UndefList
    /\ curRotation = NoRotation
    /\ timeSinceRotationStart = UNDEF
    /\ rotationCountDown = 0
    /\ keyState = {}
    /\ frameLoop = TRUE
    /\ threw = FALSE
    /\ calls = <<>>
    /\ selected = <<>>
    /\ history = <<>>
    /\ prevSlots = InitialSlots
    /\ prevTransform = localTransform
    /\ shuffleSlots = InitialSlots
    /\ lastCall = NoCall
    /\ nCommands = 0
    /\ nClicks = 0
    /\ sinceAccept = [ms |-> ROTATION_COOLDOWN_MS, atAccept |-> ROTATION_COOLDOWN_MS]
    /\ enteredDrag = FALSE
    /\ initPc = "run"
    /\ loaded = NumModels + NumTextures
    /\ loadFailed = FALSE
    /\ mouseListeners = {MOUSE_DOWN}
    /\ keyListeners = [k \in DragKeys |-> 0]
    /\ removes = "undefined"
    /\ dragProtocol = "out"
    /\ physicalDown = {}

-----------------------------------------------------------------------------
(* The rotation engine alone: whole rotations, one after the other, each   *)
(* carried out as one pass of the loop of shuffleRubiksCube.               *)

Moves == {<<ROTATIONS[j], cw>> : j \in 1..9, cw \in BOOLEAN}

Rotate(rotation, rotateClockwise) ==
    /\ \/ Len(history) < MaxMoves
       \/ /\ Len(history) < MaxRepeat
          /\ \A i \in 1..Len(history) : history[i] = <<rotation, rotateClockwise>>
    /\ SetHeap(ShuffleOnce(Heap, rotation, rotateClockwise))
    /\ history' = Append(history, <<rotation, rotateClockwise>>)
    /\ prevSlots' = children[CUBELETS]
    /\ prevTransform' = localTransform
    /\ UNCHANGED <<curRotation, timeSinceRotationStart, rotationCountDown, keyState,
                   frameLoop, calls, selected, shuffleSlots, lastCall, nCommands, nClicks,
                   sinceAccept, enteredDrag,
                   initPc, loaded, loadFailed,
                   mouseListeners, keyListeners, removes, dragProtocol, physicalDown>>

NextRot == \E mv \in Moves : Rotate(mv[1], mv[2])

SpecRot == InitGame /\ [][NextRot]_vars

-----------------------------------------------------------------------------
(* The game: key events, frames and clicks on the Shuffle button, each     *)
(* handler one step.  The inputs are drawn from small sets.                *)

\* e.key of the key events that arrive
KeysPressed == {"g", "U", "Shift"}
\* frame deltas in ms (performance.now() differences)
Deltas == {0, 150}
\* e.button of a mousedown: the left button and another
Buttons == {0, 2}
\* value of the #difficulty select
Difficulties == {"easy"}
\* what Math.random() makes the shuffle pick
RandomMoves == {<<"left", FALSE>>, <<"up", TRUE>>}

toUpperCase(keyName) ==
    CASE keyName = "g" -> "G" [] keyName = "x" -> "X" [] keyName = "b" -> "B"
      [] keyName = "r" -> "R" [] keyName = "z" -> "Z" [] keyName = "o" -> "O"
      [] keyName = "u" -> "U" [] keyName = "y" -> "Y" [] keyName = "d" -> "D"

isKeyDown(keyName) == keyName \in keyState

\* mutant: the drag turns the pivot
updateTransformOfPivot(xf) == [xf EXCEPT ![TEMP] = Orbit]

\* onMouse's updateTransform: GLB.rubiksCube.localTransform becomes rot x
\* self.startTransform, rot made from the mouse position and the three keys' state:
\* a free orbit again
updateTransform(xf) == [xf EXCEPT ![RUBIKS] = Orbit]

\* KeyInputManager.setKey(keyName, value): _callListeners calls the listeners added for
\* keyName; onMouse adds updateTransform for three keys on "enter" and takes it away
\* on "exit"
CallListeners(keyName) ==
    /\ localTransform' =
           IF keyName \in DOMAIN keyListeners /\ keyListeners[keyName] > 0
           THEN updateTransform(localTransform)
           ELSE localTransform
    /\ threw' = FALSE
    /\ UNCHANGED <<children, parent, cubeletsBeforeRotation,
                   cubletsToRotate, curRotation, timeSinceRotationStart,
                   rotationCountDown, frameLoop, calls, selected, history, prevSlots,
                   prevTransform, shuffleSlots, lastCall, nCommands, nClicks,
                   sinceAccept, enteredDrag,
                   initPc, loaded, loadFailed,
                   mouseListeners, keyListeners, removes, dragProtocol>>

\* keydown listener for a fresh key press (an auto-repeat event returns before
\* setKey): setKey(e.key, true)
KeyDown(keyName) ==
    /\ keyState' = keyState \cup {keyName}
    /\ CallListeners(keyName)
    /\ UNCHANGED physicalDown

\* keyup listener: setKey(e.key, false)
KeyUp(keyName) ==
    /\ keyState' = keyState \ {keyName}
    /\ CallListeners(keyName)
    /\ UNCHANGED physicalDown

\* the physical keys of the keyboard specification, by KeyboardEvent.code
PhysicalKeys == {"KeyG", "ShiftLeft"}

\* KeyboardEvent.key of an event of the physical key code: a letter key gives the
\* upper-case letter while Shift is held
KeyOf(code, shiftHeld) ==
    CASE code = "ShiftLeft" -> "Shift"
      [] code = "KeyG" -> IF shiftHeld THEN "G" ELSE "g"

\* the physical key code goes down: the keydown listener with e.key as the keyboard
\* gives it at that moment (the auto-repeat events that follow return before setKey)
PressKey(code) ==
    /\ code \notin physicalDown
    /\ physicalDown' = physicalDown \cup {code}
    /\ keyState' = keyState \cup {KeyOf(code, "ShiftLeft" \in physicalDown)}
    /\ CallListeners(KeyOf(code, "ShiftLeft" \in physicalDown))

\* the physical key code goes up: the keyup listener with e.key as it is then
ReleaseKey(code) ==
    /\ code \in physicalDown
    /\ physicalDown' = physicalDown \ {code}
    /\ keyState' = keyState \ {KeyOf(code, "ShiftLeft" \in physicalDown')}
    /\ CallListeners(KeyOf(code, "ShiftLeft" \in physicalDown'))

\* ClickAndDragHandler's state with what onMouse works on: the root cube node's
\* transform, the key listeners and self.removes; err: the handler threw; ret: what
\* the last callback returned
Drag ==
    [enteredDrag |-> enteredDrag, listeners |-> mouseListeners, keys |-> keyListeners,
     removes |-> removes, protocol |-> dragProtocol, xf |-> localTransform,
     err |-> FALSE, ret |-> FALSE]

\* the callback is called with state, and "enter" returns entered
Observe(protocol, state, entered) ==
    CASE state = "enter" -> IF protocol = "out" THEN (IF entered THEN "in" ELSE "out")
                            ELSE "broken"
      [] state = "drag" -> IF protocol = "in" THEN "in" ELSE "broken"
      [] state = "exit" -> IF protocol = "in" THEN "out" ELSE "broken"

\* the three remove functions of self.removes are called: each takes its listener out
\* of the key's list once (isRemoved), and throws when it is not there
RemoveKeyListeners(d) ==
    IF d.removes = "undefined" THEN [d EXCEPT !.err = TRUE]
    ELSE IF d.removes = "removed" THEN d
    ELSE IF \E k \in DragKeys : d.keys[k] = 0 THEN [d EXCEPT !.err = TRUE]
    ELSE [d EXCEPT !.keys = [k \in DragKeys |-> d.keys[k] - 1], !.removes = "removed"]

\* onMouse(e, state, self), the callback of the canvas's ClickAndDragHandler
onMouse(d, state, button) ==
    CASE state = "enter" ->
             IF button = 0
             THEN [d EXCEPT !.keys = [k \in DragKeys |-> d.keys[k] + 1],
                            !.removes = "live",
                            !.protocol = Observe(d.protocol, "enter", TRUE),
                            !.ret = TRUE]
             ELSE [d EXCEPT !.protocol = Observe(d.protocol, "enter", FALSE),
                            !.ret = FALSE]
      [] state = "drag" ->
             [d EXCEPT !.xf = updateTransform(d.xf),
                       !.protocol = Observe(d.protocol, "drag", FALSE),
                       !.ret = FALSE]
      [] state = "exit" ->
             RemoveKeyListeners([d EXCEPT !.protocol = Observe(d.protocol, "exit", FALSE),
                                          !.ret = FALSE])

\* mutant: exitDrag leaves the listeners of the drag on the canvas
exitDragKeepsListeners(d, button) ==
    onMouse([d EXCEPT !.enteredDrag = FALSE,
                      !.listeners = d.listeners \cup {MOUSE_DOWN}],
            "exit", button)

exitDrag(d, button) ==
    onMouse([d EXCEPT !.enteredDrag = FALSE,
                      !.listeners = (d.listeners \ {MOUSE_MOVE, MOUSE_UP, MOUSE_LEAVE})
                                        \cup {MOUSE_DOWN}],
            "exit", button)

\* enterDrag after its "enter" callback has left d (callDragOnMouseDown is true)
EnterIf(d, button) ==
    IF d.ret
    THEN onMouse([d EXCEPT !.enteredDrag = TRUE,
                           !.listeners = (d.listeners \ {MOUSE_DOWN})
                                             \cup {MOUSE_MOVE, MOUSE_UP, MOUSE_LEAVE}],
                 "drag", button)
    ELSE d

enterDrag(d, button) == EnterIf(onMouse(d, "enter", button), button)

onMouseDown(d, button) ==
    IF d.enteredDrag THEN exitDrag([d EXCEPT !.enteredDrag = FALSE], button)
    ELSE enterDrag(d, button)

\* a mouse event on the canvas whose listener leaves d: all but the orbit and the
\* drag are left alone
MouseEvent(d) ==
    /\ enteredDrag' = d.enteredDrag
    /\ mouseListeners' = d.listeners
    /\ keyListeners' = d.keys
    /\ removes' = d.removes
    /\ dragProtocol' = d.protocol
    /\ localTransform' = d.xf
    /\ threw' = d.err
    /\ UNCHANGED <<children, parent, cubeletsBeforeRotation,
                   cubletsToRotate, curRotation, timeSinceRotationStart,
                   rotationCountDown, keyState, frameLoop, calls, selected, history,
                   prevSlots, prevTransform, shuffleSlots, lastCall, nCommands, nClicks,
                   sinceAccept,
                   initPc, loaded, loadFailed, physicalDown>>

\* onMouseDown, which listens while no drag is on: onMouse(e, "enter") enters the drag
\* for the left button (e.button = 0), and is then called with "drag" at once
\* (callDragOnMouseDown)
MouseDown(button) ==
    /\ MOUSE_DOWN \in mouseListeners
    /\ MouseEvent(onMouseDown(Drag, button))

\* onMouseMove, which listens while a drag is on: onMouse(e, "drag")
MouseMove ==
    /\ MOUSE_MOVE \in mouseListeners
    /\ MouseEvent(onMouse(Drag, "drag", 0))

\* onMouseUp: exitDrag, whose onMouse(e, "exit") takes the key listeners away
MouseUp ==
    /\ MOUSE_UP \in mouseListeners
    /\ MouseEvent(exitDrag(Drag, 0))

\* onMouseLeave: exitDrag too (exitOnLeave is true)
MouseLeave ==
    /\ MOUSE_LEAVE \in mouseListeners
    /\ MouseEvent(exitDrag(Drag, 0))

\* mutant: of the rotation keys held, the last in the order of ROTATION_KEYS is taken
getUserInputLastKeyHeld(deltaTimeMs) ==
    LET c1 == IF rotationCountDown > 0 THEN rotationCountDown - deltaTimeMs
              ELSE rotationCountDown
        held == {i \in 1..9 : isKeyDown(ROTATION_KEYS[i])
                              \/ isKeyDown(toUpperCase(ROTATION_KEYS[i]))}
        last == CHOOSE i \in held : \A j \in held : i >= j
    IN  IF c1 > 0 THEN [countDown |-> c1, input |-> NoRotation]
        ELSE IF held = {} THEN [countDown |-> c1, input |-> NoRotation]
        ELSE [countDown |-> ROTATION_COOLDOWN_MS,
              input |-> <<ROTATIONS[last], isKeyDown(ROTATE_CLOCKWISE_KEY)>>]

\* mutant: the cooldown is counted down but does not hold a command back
getUserInputDuringCooldown(deltaTimeMs) ==
    LET c1 == IF rotationCountDown > 0 THEN rotationCountDown - deltaTimeMs
              ELSE rotationCountDown
        held == {i \in 1..9 : isKeyDown(ROTATION_KEYS[i])
                              \/ isKeyDown(toUpperCase(ROTATION_KEYS[i]))}
        first == CHOOSE i \in held : \A j \in held : i <= j
    IN  IF held = {} THEN [countDown |-> c1, input |-> NoRotation]
        ELSE [countDown |-> ROTATION_COOLDOWN_MS,
              input |-> <<ROTATIONS[first], isKeyDown(ROTATE_CLOCKWISE_KEY)>>]

\* getUserInputForRotatingRubiksCube: [countDown |-> the new GLB.rotationCountDown,
\* input |-> NoRotation (null) or <<rotation, isShiftDown>>]
getUserInputForRotatingRubiksCube(deltaTimeMs) ==
    LET c1 == IF rotationCountDown > 0 THEN rotationCountDown - deltaTimeMs
              ELSE rotationCountDown
        held == {i \in 1..9 : isKeyDown(ROTATION_KEYS[i])
                              \/ isKeyDown(toUpperCase(ROTATION_KEYS[i]))}
        \* findIndex: the first one
        first == CHOOSE i \in held : \A j \in held : i <= j
    IN  IF c1 > 0 THEN [countDown |-> c1, input |-> NoRotation]
        ELSE IF held = {} THEN [countDown |-> c1, input |-> NoRotation]
        ELSE [countDown |-> ROTATION_COOLDOWN_MS,
              input |-> <<ROTATIONS[first], isKeyDown(ROTATE_CLOCKWISE_KEY)>>]

\* a run of DO_ROTATE calls is entered once
Called(rotateState) ==
    IF rotateState = DO_ROTATE /\ calls # <<>> /\ calls[Len(calls)] = DO_ROTATE THEN calls
    ELSE Append(calls, rotateState)

\* the slot table a whole rotation gives, carried out as the shuffle does
ShuffledSlots(slots, rotation, rotateClockwise) ==
    LET h == [ch |-> [n \in GameNodes |-> IF n = CUBELETS THEN slots ELSE <<>>],
              par |-> [n \in GameNodes |-> IF n \in Cublets THEN CUBELETS ELSE NULL],
              xf |-> [n \in GameNodes |-> identityMat4],
              before |-> NullList, toRotate |-> NullList, err |-> FALSE]
    IN  ShuffleOnce(h, rotation, rotateClockwise).ch[CUBELETS]

\* updateRubiksCube after its call of rotateRubiksCubeSide has left the heap h: t is
\* the advanced GLB.timeSinceRotationStart; an exception leaves runFrame before the
\* next frame is requested, and before the statements that follow the call
AfterRotate(h, rotateState, t, reset) ==
    /\ SetHeap(h)
    /\ frameLoop' = ~h.err
    /\ calls' = Called(rotateState)
    /\ selected' = IF rotateState = START_ROTATE /\ calls = <<>> THEN h.toRotate
                   ELSE selected
    /\ curRotation' = IF reset /\ ~h.err THEN NoRotation ELSE curRotation
    /\ timeSinceRotationStart' =
           IF rotateState = START_ROTATE
           THEN (IF h.err THEN timeSinceRotationStart ELSE t)
           ELSE (IF reset /\ ~h.err THEN NULL ELSE t)
    /\ UNCHANGED <<rotationCountDown, shuffleSlots, nCommands, sinceAccept>>

\* mutant: every frame of a rotation reads the direction from the Shift key again
AnimateRereadsShift(deltaTimeMs, t, reset) ==
    IF timeSinceRotationStart = 0
    THEN AfterRotate(rotateRubiksCubeSide(Heap, curRotation[1],
                                          isKeyDown(ROTATE_CLOCKWISE_KEY),
                                          0, START_ROTATE),
                     START_ROTATE, t, FALSE)
    ELSE AfterRotate(rotateRubiksCubeSide(Heap, curRotation[1],
                                          isKeyDown(ROTATE_CLOCKWISE_KEY),
                                          IF reset THEN ROTATION_TIME_MS ELSE t,
                                          IF reset THEN END_ROTATE ELSE DO_ROTATE),
                     IF reset THEN END_ROTATE ELSE DO_ROTATE, t, reset)

\* updateRubiksCube with a current rotation
Animate(deltaTimeMs, t, reset) ==
    IF timeSinceRotationStart = 0
    THEN AfterRotate(rotateRubiksCubeSide(Heap, curRotation[1], curRotation[2],
                                          0, START_ROTATE),
                     START_ROTATE, t, FALSE)
    ELSE AfterRotate(rotateRubiksCubeSide(Heap, curRotation[1], curRotation[2],
                                          IF reset THEN ROTATION_TIME_MS ELSE t,
                                          IF reset THEN END_ROTATE ELSE DO_ROTATE),
                     IF reset THEN END_ROTATE ELSE DO_ROTATE, t, reset)

UpToCooldown(ms) == IF ms >= ROTATION_COOLDOWN_MS THEN ROTATION_COOLDOWN_MS ELSE ms

\* updateRubiksCube without one: r is what getUserInputForRotatingRubiksCube gave
ReadInput(r, deltaTimeMs) ==
    /\ rotationCountDown' = r.countDown
    /\ sinceAccept' = IF r.input # NoRotation
                      THEN [ms |-> 0, atAccept |-> UpToCooldown(sinceAccept.ms + deltaTimeMs)]
                      ELSE [sinceAccept EXCEPT !.ms = UpToCooldown(@ + deltaTimeMs)]
    /\ IF r.input # NoRotation
       THEN /\ nCommands < MaxCommands
            /\ curRotation' = r.input
            /\ timeSinceRotationStart' = 0
            /\ calls' = <<>>
            /\ selected' = <<>>
            /\ shuffleSlots' = ShuffledSlots(shuffleSlots, r.input[1], r.input[2])
            /\ nCommands' = nCommands + 1
       ELSE UNCHANGED <<curRotation, timeSinceRotationStart, calls, selected,
                        shuffleSlots, nCommands>>
    /\ threw' = FALSE
    /\ UNCHANGED <<children, parent, localTransform, cubeletsBeforeRotation,
                   cubletsToRotate, frameLoop>>

\* mutant: the rotation is ended as soon as the interpolation is 1.0
TickCompletesAtOne(deltaTimeMs) ==
    /\ frameLoop
    /\ IF curRotation # NoRotation
       THEN Animate(deltaTimeMs, timeSinceRotationStart + deltaTimeMs,
                    timeSinceRotationStart + deltaTimeMs >= ROTATION_TIME_MS)
       ELSE ReadInput(getUserInputForRotatingRubiksCube(deltaTimeMs), deltaTimeMs)
    /\ UNCHANGED <<keyState, history, prevSlots, prevTransform, lastCall, nClicks,
                   enteredDrag,
                   initPc, loaded, loadFailed,
                   mouseListeners, keyListeners, removes, dragProtocol, physicalDown>>

\* runFrame with the frame delta deltaTimeMs: updateRubiksCube, then render, then the
\* next frame is requested
Tick(deltaTimeMs) ==
    /\ frameLoop
    /\ IF curRotation # NoRotation
       THEN Animate(deltaTimeMs, timeSinceRotationStart + deltaTimeMs,
                    timeSinceRotationStart + deltaTimeMs > ROTATION_TIME_MS)
       ELSE ReadInput(getUserInputForRotatingRubiksCube(deltaTimeMs), deltaTimeMs)
    /\ UNCHANGED <<keyState, history, prevSlots, prevTransform, lastCall, nClicks,
                   enteredDrag,
                   initPc, loaded, loadFailed,
                   mouseListeners, keyListeners, removes, dragProtocol, physicalDown>>

\* onClickShuffle: the move count of each difficulty
NumShuffles(d) ==
    CASE d = "easy" -> 2
      [] d = "medium" -> 5
      [] d = "hard" -> 30

\* shuffleRubiksCube: the loop, for the moves Math.random() picks; an exception ends it
RECURSIVE shuffleRubiksCube(_, _, _)
shuffleRubiksCube(h, picks, i) ==
    IF i > Len(picks) \/ h.err THEN h
    ELSE shuffleRubiksCube(ShuffleOnce(h, picks[i][1], picks[i][2]), picks, i + 1)

ClickShuffle(d, picks) ==
    /\ nClicks < MaxClicks
    /\ Len(picks) = NumShuffles(d)
    /\ SetHeap(shuffleRubiksCube(Heap, picks, 1))
    /\ nClicks' = nClicks + 1
    /\ UNCHANGED <<curRotation, timeSinceRotationStart, rotationCountDown, keyState,
                   frameLoop, calls, selected, history, prevSlots, prevTransform,
                   shuffleSlots, lastCall, nCommands, sinceAccept,
                   enteredDrag,
                   initPc, loaded, loadFailed,
                   mouseListeners, keyListeners, removes, dragProtocol, physicalDown>>

Next ==
    \/ \E k \in KeysPressed : KeyDown(k)
    \/ \E k \in KeysPressed : KeyUp(k)
    \/ \E dt \in Deltas : Tick(dt)
    \/ \E button \in Buttons : MouseDown(button)
    \/ MouseMove
    \/ MouseUp
    \/ MouseLeave
    \/ \E d \in Difficulties : \E picks \in [1..NumShuffles(d) -> RandomMoves] :
           ClickShuffle(d, picks)

Spec == InitGame /\ [][Next]_vars

\* the keyboard specification: the events of physical keys, and the frames
NextKeys ==
    \/ \E code \in PhysicalKeys : PressKey(code)
    \/ \E code \in PhysicalKeys : ReleaseKey(code)
    \/ \E dt \in Deltas : Tick(dt)

SpecKeys == InitGame /\ [][NextKeys]_vars

-----------------------------------------------------------------------------
(* Start-up: the load handler init, from initGameWorld's first await to    *)
(* the first call of runFrame.  The awaits are taken one after the other:  *)
(* three models, then the textures; the cublets are created after the last *)
(* of them.                                                                *)

\* initGlobals, and initGameWorld up to its first await: the container and the pivot
\* are under the root cube node, and there is no cublet yet
InitBoot ==
    /\ children = [n \in GameNodes |-> IF n = RUBIKS THEN <<CUBELETS, TEMP>> ELSE <<>>]
    /\ parent = [n \in GameNodes |-> IF n \in {CUBELETS, TEMP} THEN RUBIKS ELSE NULL]
    /\ localTransform = [n \in GameNodes |-> IF n = RUBIKS THEN Orbit ELSE identityMat4]
    /\ cubeletsBeforeRotation = UndefList
    /\ cubletsToRotate = UndefList
    /\ curRotation = NoRotation
    /\ timeSinceRotationStart = UNDEF
    /\ rotationCountDown = 0
    /\ keyState = {}
    /\ frameLoop = FALSE
    /\ threw = FALSE
    /\ calls = <<>>
    /\ selected = <<>>
    /\ history = <<>>
    /\ prevSlots = <<>>
    /\ prevTransform = localTransform
    /\ shuffleSlots = <<>>
    /\ lastCall = NoCall
    /\ nCommands = 0
    /\ nClicks = 0
    /\ sinceAccept = [ms |-> ROTATION_COOLDOWN_MS, atAccept |-> ROTATION_COOLDOWN_MS]
    /\ enteredDrag = FALSE
    /\ initPc = "load"
    /\ loaded = 0
    /\ loadFailed = FALSE
    /\ mouseListeners = {}
    /\ keyListeners = [k \in DragKeys |-> 0]
    /\ removes = "undefined"
    /\ dragProtocol = "out"
    /\ physicalDown = {}

\* a step of init: what it leaves alone
BootStep ==
    UNCHANGED <<cubeletsBeforeRotation, cubletsToRotate, curRotation,
                timeSinceRotationStart, rotationCountDown, keyState, threw, calls,
                selected, history, prevSlots, prevTransform, shuffleSlots, lastCall,
                nCommands, nClicks, sinceAccept, enteredDrag,
                keyListeners, removes, dragProtocol, physicalDown>>

\* the load awaited is that of a model (loadModelFromWavefrontOBJ), not of a texture
AwaitsModel == loaded < NumModels

\* the awaited load resolves with its asset
LoadResolves ==
    /\ initPc = "load" /\ loaded < NumModels + NumTextures
    /\ loaded' = loaded + 1
    /\ BootStep
    /\ UNCHANGED <<mouseListeners, children, parent, localTransform, frameLoop, initPc, loadFailed>>

\* loadModelFromWavefrontOBJ does not look at the response's status: for a file the
\* server does not have, fetch resolves, and when the body of the answer has no line
\* the parser throws on (an empty body), the load resolves with a model without faces
ModelNotFoundResolves ==
    /\ initPc = "load" /\ AwaitsModel
    /\ loaded' = loaded + 1
    /\ loadFailed' = TRUE
    /\ BootStep
    /\ UNCHANGED <<mouseListeners, children, parent, localTransform, frameLoop, initPc>>

\* fetch rejects (no network), or the parser throws on the body: the await throws,
\* initGameWorld and init end there
ModelLoadRejects ==
    /\ initPc = "load" /\ AwaitsModel
    /\ initPc' = "rejected"
    /\ loadFailed' = TRUE
    /\ BootStep
    /\ UNCHANGED <<mouseListeners, children, parent, localTransform, frameLoop, loaded>>

\* getTexture resolves in the image's "load" listener and nowhere else: an image
\* that does not load leaves the promise pending; so does a fetch without an answer
LoadNeverSettles ==
    /\ initPc = "load" /\ loaded < NumModels + NumTextures
    /\ initPc' = "pending"
    /\ loadFailed' = TRUE
    /\ BootStep
    /\ UNCHANGED <<mouseListeners, children, parent, localTransform, frameLoop, loaded>>

\* initGameWorld after its last await: the 27 cublets are created and added to the
\* container in the order of their index
CreateCublets ==
    /\ initPc = "load" /\ loaded = NumModels + NumTextures
    /\ initPc' = "world"
    /\ children' = [children EXCEPT ![CUBELETS] = InitialSlots]
    /\ parent' = [n \in GameNodes |-> IF n \in Cublets THEN CUBELETS ELSE parent[n]]
    /\ BootStep
    /\ UNCHANGED <<mouseListeners, localTransform, frameLoop, loaded, loadFailed>>

\* initEvents: the Shuffle button's click handler, the key listeners and the canvas's
\* mouse handler are registered (handler.attach() sets the mousedown listener)
InitEvents ==
    /\ initPc = "world"
    /\ initPc' = "events"
    /\ mouseListeners' = {MOUSE_DOWN}
    /\ BootStep
    /\ UNCHANGED <<children, parent, localTransform, frameLoop, loaded, loadFailed>>

\* init's call of runFrame, which requests the next frame
StartGameLoop ==
    /\ initPc = "events"
    /\ initPc' = "run"
    /\ frameLoop' = TRUE
    /\ BootStep
    /\ UNCHANGED <<mouseListeners, children, parent, localTransform, loaded, loadFailed>>

\* the handlers of initEvents are registered
HandlersRegistered == initPc \in {"events", "run"}

NextBoot ==
    \/ LoadResolves
    \/ ModelNotFoundResolves
    \/ ModelLoadRejects
    \/ LoadNeverSettles
    \/ CreateCublets
    \/ InitEvents
    \/ StartGameLoop
    \/ \E k \in KeysPressed : HandlersRegistered /\ KeyDown(k)
    \/ \E k \in KeysPressed : HandlersRegistered /\ KeyUp(k)

SpecBoot == InitBoot /\ [][NextBoot]_vars

-----------------------------------------------------------------------------
(* The scene tree on its own: MaxNodes nodes fresh from SceneTreeNode(),   *)
(* and any call of the four methods that change the tree.                  *)

TreeNodes == 0..(MaxNodes - 1)

RECURSIVE SeqsUpTo(_, _)
SeqsUpTo(S, n) ==
    IF n = 0 THEN {<<>>}
    ELSE SeqsUpTo(S, n - 1) \cup [1..n -> S]

InitTree ==
    /\ children = [n \in TreeNodes |-> <<>>]
    /\ parent = [n \in TreeNodes |-> NULL]
    /\ localTransform = [n \in TreeNodes |-> identityMat4]
    /\ cubeletsBeforeRotation = UndefList
    /\ cubletsToRotate = UndefList
    /\ curRotation = NoRotation
    /\ timeSinceRotationStart = UNDEF
    /\ rotationCountDown = 0
    /\ keyState = {}
    /\ frameLoop = TRUE
    /\ threw = FALSE
    /\ calls = <<>>
    /\ selected = <<>>
    /\ history = <<>>
    /\ prevSlots = <<>>
    /\ prevTransform = localTransform
    /\ shuffleSlots = <<>>
    /\ lastCall = NoCall
    /\ nCommands = 0
    /\ nClicks = 0
    /\ sinceAccept = [ms |-> ROTATION_COOLDOWN_MS, atAccept |-> ROTATION_COOLDOWN_MS]
    /\ enteredDrag = FALSE
    /\ initPc = "run"
    /\ loaded = NumModels + NumTextures
    /\ loadFailed = FALSE
    /\ mouseListeners = {MOUSE_DOWN}
    /\ keyListeners = [k \in DragKeys |-> 0]
    /\ removes = "undefined"
    /\ dragProtocol = "out"
    /\ physicalDown = {}

TreeCall(method, h) ==
    /\ SetHeap(h)
    /\ lastCall' = [method |-> method, ch |-> children, par |-> parent]
    /\ UNCHANGED <<curRotation, timeSinceRotationStart, rotationCountDown, keyState,
                   frameLoop, calls, selected, history, prevSlots, prevTransform,
                   shuffleSlots, nCommands, nClicks, sinceAccept, enteredDrag,
                   initPc, loaded, loadFailed,
                   mouseListeners, keyListeners, removes, dragProtocol, physicalDown>>

AddChild(this, child) == TreeCall("addChild", addChild(Heap, this, child))

RemoveChild(this, child) == TreeCall("removeChild", removeChild(Heap, this, child))

RemoveChildAt(this, index) == TreeCall("removeChildAt", removeChildAt(Heap, this, index))

SetChildren(this, newChildren) ==
    TreeCall("setChildren", setChildren(Heap, this, newChildren))

\* the transform getter calls itself on the parent: the chain of parents from n ends
\* at a node without parent within fuel steps
RECURSIVE ChainEnds(_, _, _)
ChainEnds(h, n, fuel) ==
    IF h.par[n] = NULL THEN TRUE
    ELSE IF fuel = 0 THEN FALSE
    ELSE ChainEnds(h, h.par[n], fuel - 1)

\* on a chain of parents that is a cycle the getter recurses until the call stack
\* overflows (RangeError)
TransformOverflows(h, n) == ~ChainEnds(h, n, Cardinality(DOMAIN h.par))

\* switchParentKeepTransform(child, oldParent, newParent, noSwitch): both transforms
\* are read before anything is changed
SwitchParent(child, oldParent, newParent, noSwitch) ==
    TreeCall("switchParentKeepTransform",
             IF TransformOverflows(Heap, newParent) \/ TransformOverflows(Heap, child)
             THEN Throw(Heap)
             ELSE switchParentKeepTransform(Heap, child, oldParent, newParent, noSwitch))

NextTree ==
    \/ \E child \in TreeNodes, oldParent \in TreeNodes, newParent \in TreeNodes,
          noSwitch \in BOOLEAN : SwitchParent(child, oldParent, newParent, noSwitch)
    \/ \E this \in TreeNodes, child \in TreeNodes : AddChild(this, child)
    \/ \E this \in TreeNodes, child \in TreeNodes : RemoveChild(this, child)
    \/ \E this \in TreeNodes, index \in -1..MaxLen : RemoveChildAt(this, index)
    \/ \E this \in TreeNodes, newChildren \in SeqsUpTo(TreeNodes, MaxLen) :
           SetChildren(this, newChildren)

SpecTree == InitTree /\ [][NextTree]_vars

-----------------------------------------------------------------------------
(* Properties of the rotation engine (checked under SpecRot). *)

SlotOf(x, y, z) == (x * 9) + (y * 3) + z

\* the coordinate of slot index idx on an axis (0: x, 1: y, 2: z)
Coord(idx, axis) ==
    CASE axis = 0 -> idx \div 9
      [] axis = 1 -> (idx \div 3) % 3
      [] axis = 2 -> idx % 3

SlotTable == children[CUBELETS]

IsPermutationOfCublets(list) ==
    /\ Len(list) = 27
    /\ {list[k] : k \in 1..Len(list)} = Cublets

LastMove == history[Len(history)]

RECURSIVE ShuffleTimes(_, _, _, _)
ShuffleTimes(h, rotation, rotateClockwise, n) ==
    IF n = 0 THEN h
    ELSE ShuffleTimes(ShuffleOnce(h, rotation, rotateClockwise), rotation, rotateClockwise, n - 1)

\* C4 (inverse law): whenever a rotation has been carried out, from whatever slot
\* table, carrying out the rotation of the same name with the opposite clockwise flag
\* gives back the slot table from before it; the order clockwise-then-counter and the
\* opposite order are both covered because the flag of the first ranges over both values.
C4_InverseLaw ==
    history # <<>> =>
        LET back == ShuffleOnce(Heap, LastMove[1], ~LastMove[2])
        IN  ~threw /\ ~back.err /\ back.ch[CUBELETS] = prevSlots

\* a rotation and then its opposite have been carried out, and the table is back
C4_Witness ==
    /\ Len(history) = 2
    /\ history[1][1] = history[2][1]
    /\ history[1][2] # history[2][2]
    /\ prevSlots # InitialSlots
    /\ SlotTable = InitialSlots

\* C5 (4-cycle law): whenever a rotation has been carried out, from whatever state,
\* carrying out the same rotation three more times gives back the slot table and every
\* cublet's local transform from before the first of the four.
C5_FourCycleLaw ==
    history # <<>> =>
        LET again == ShuffleTimes(Heap, LastMove[1], LastMove[2], 3)
        IN  /\ ~threw /\ ~again.err
            /\ again.ch[CUBELETS] = prevSlots
            /\ \A c \in Cublets : again.xf[c] = prevTransform[c]

\* one rotation has been carried out four times and cube and transforms are back
\* (after the third they were not)
C5_Witness ==
    /\ Len(history) = 4
    /\ \A i \in 1..4 : history[i] = history[1]
    /\ prevSlots # InitialSlots
    /\ SlotTable = InitialSlots
    /\ \A c \in Cublets : localTransform[c] = identityMat4

\* C6 (scenario A): after "up" with clockwise = true on the solved cube, the cublet of
\* slot (0,2,0) is in slot (2,2,0), that of (2,2,0) in (2,2,2), that of (2,2,2) in
\* (0,2,2), that of (0,2,2) in (0,2,0); the four top edges cycle the same way round and
\* the cublet of (1,2,1) stays.
C6_ScenarioA ==
    history = << <<"up", TRUE>> >> =>
        /\ SlotTable[SlotOf(2, 2, 0) + 1] = SlotOf(0, 2, 0)
        /\ SlotTable[SlotOf(2, 2, 2) + 1] = SlotOf(2, 2, 0)
        /\ SlotTable[SlotOf(0, 2, 2) + 1] = SlotOf(2, 2, 2)
        /\ SlotTable[SlotOf(0, 2, 0) + 1] = SlotOf(0, 2, 2)
        /\ SlotTable[SlotOf(2, 2, 1) + 1] = SlotOf(1, 2, 0)
        /\ SlotTable[SlotOf(1, 2, 2) + 1] = SlotOf(2, 2, 1)
        /\ SlotTable[SlotOf(0, 2, 1) + 1] = SlotOf(1, 2, 2)
        /\ SlotTable[SlotOf(1, 2, 0) + 1] = SlotOf(0, 2, 1)
        /\ SlotTable[SlotOf(1, 2, 1) + 1] = SlotOf(1, 2, 1)

C6_Witness ==
    /\ history = << <<"up", TRUE>> >>
    /\ SlotTable # InitialSlots
    /\ ~threw

\* what the last rotation did, had the permutation table and the spin sign been chosen
\* with the flag `flag`: the slot table is the previous one moved through that table,
\* and the spin factor is -1 for a true flag and 1 for a false one
LastRotationUsedFlag(flag) ==
    LET L == RotationLayer(LastMove[1])
        ix == getIndicesOfCubletsToRotate(L.axisI, L.axisJ, L.lockedAxis, L.lockedValue, flag)
    IN  /\ SlotTable = PermuteSlots(prevSlots, ix[1], ix[2])
        /\ getRotationInfo(LastMove[1], LastMove[2], ROTATION_TIME_MS).factor
               = (IF flag THEN -1 ELSE 1)

\* C7 as claimed: every rotation but "x-middle" works with the negated clockwise flag,
\* and "x-middle" with the flag as given.
C7_AsClaimed ==
    history # <<>> =>
        LastRotationUsedFlag(IF LastMove[1] = "x-middle" THEN LastMove[2] ELSE ~LastMove[2])

\* C7 (amended): "right", "back", "up", "x-middle" and "y-middle" work with the negated
\* clockwise flag; "left", "front", "down" and "z-middle" with the flag as given.
C7_InvertedRotations ==
    history # <<>> =>
        LastRotationUsedFlag(
            IF LastMove[1] \in {"right", "back", "up", "x-middle", "y-middle"}
            THEN ~LastMove[2] ELSE LastMove[2])

\* "left" has been carried out: a face rotation that keeps the flag
C7_Witness ==
    /\ Len(history) = 2
    /\ LastMove = <<"left", TRUE>>
    /\ SlotTable # prevSlots
    /\ ~LastRotationUsedFlag(FALSE)

\* C8: for the rotation carried out last, getRotationInfo gives 9 pairwise distinct
\* affected indices, exactly the slots of the locked layer, in row-major (i, j) order,
\* and 9 destination indices that are a permutation of the same slots.
C8_AffectedSet ==
    history # <<>> =>
        LET L == RotationLayer(LastMove[1])
            info == getRotationInfo(LastMove[1], LastMove[2], ROTATION_TIME_MS)
            layer == {idx \in 0..26 : Coord(idx, L.lockedAxis) = L.lockedValue}
        IN  /\ Len(info.indices) = 9
            /\ Len(info.newIndices) = 9
            /\ {info.indices[k] : k \in 1..9} = layer
            /\ {info.newIndices[k] : k \in 1..9} = layer
            /\ Cardinality(layer) = 9
            /\ \A k \in 1..9 :
                  /\ Coord(info.indices[k], L.axisI) = (k - 1) \div 3
                  /\ Coord(info.indices[k], L.axisJ) = (k - 1) % 3
            \* and the rotation moved just these slots
            /\ \A p \in 0..26 : p \notin layer => SlotTable[p + 1] = prevSlots[p + 1]
            /\ {SlotTable[p + 1] : p \in layer} = {prevSlots[p + 1] : p \in layer}

\* each of the 18 rotations has been the one carried out last
C8_Witness ==
    /\ Len(history) = 2
    /\ LastMove = <<"z-middle", TRUE>>
    /\ SlotTable # prevSlots
    /\ IsPermutationOfCublets(SlotTable)

-----------------------------------------------------------------------------
(* Properties of the game                                                  *)

Starts == {i \in DOMAIN calls : calls[i] = START_ROTATE}

LastCallIs(rotateState) == calls # <<>> /\ calls[Len(calls)] = rotateState

(* C1: whenever no rotation is in progress, after any rotations carried out *)
(* by frames or by the shuffle, the slot table holds each of the 27 cublets *)
(* exactly once.                                                            *)
C1_PermutationClosure ==
    (curRotation = NoRotation /\ frameLoop) => IsPermutationOfCublets(SlotTable)

(* C2: key events and Shuffle clicks that arrive between the START and the  *)
(* END of an animated rotation leave it alone: while it runs, the cublets   *)
(* being turned and the pivot's children are the 9 cublets selected at      *)
(* START and the frame loop goes on; once it has ended the pivot is empty   *)
(* and the slot table is a permutation of the 27 cublets.                   *)
C2_NotInterrupted ==
    Cardinality(Starts) = 1 =>
        /\ curRotation # NoRotation =>
               /\ frameLoop
               /\ cubletsToRotate = selected
               /\ children[TEMP] = selected
        /\ (curRotation = NoRotation /\ nClicks = 0) =>
               /\ children[TEMP] = <<>>
               /\ IsPermutationOfCublets(SlotTable)

(* C3: for an accepted command, whatever the frame deltas (0 included),     *)
(* updateRubiksCube calls rotateRubiksCubeSide with START_ROTATE once, then *)
(* with DO_ROTATE any number of times, then with END_ROTATE once, and is    *)
(* idle again only after that END_ROTATE.                                   *)
C3_StartDoEnd ==
    /\ calls \in {<<>>, <<START_ROTATE>>, <<START_ROTATE, DO_ROTATE>>,
                  <<START_ROTATE, END_ROTATE>>,
                  <<START_ROTATE, DO_ROTATE, END_ROTATE>>}
    /\ (curRotation = NoRotation /\ nCommands > 0) => LastCallIs(END_ROTATE)

(* C9: Scenario C: once the accepted commands have been animated to their   *)
(* end by frames, the slot table is the one that the same moves give when   *)
(* each is carried out as the shuffle does (START, DO, END at once).        *)
C9_ScenarioC ==
    (curRotation = NoRotation /\ nClicks = 0 /\ nCommands > 0)
        => SlotTable = shuffleSlots

-----------------------------------------------------------------------------
(* Properties of the scene tree                                            *)

(* C10: a call of addChild, removeChild or setChildren that throws leaves   *)
(* every node's children list and parent pointer as they were before the    *)
(* call.                                                                    *)
C10_NoPartialMutation ==
    (threw /\ lastCall.method \in {"addChild", "removeChild", "setChildren"})
        => (children = lastCall.ch /\ parent = lastCall.par)

Occurrences(list, n) == Cardinality({i \in DOMAIN list : list[i] = n})

(* C11: after any calls of addChild, removeChild, removeChildAt, setChildren  *)
(* and switchParentKeepTransform, throwing ones included, a node n occurs in  *)
(* the children of p exactly once when n.parent is p and not at all          *)
(* otherwise; so every node is in at most one children list.                 *)
C11_SceneGraphConsistency ==
    \A n \in TreeNodes, p \in TreeNodes :
        Occurrences(children[p], n) = (IF parent[n] = p THEN 1 ELSE 0)

\* a setChildren has thrown half-way, and a re-parenting has just moved a node
C11_Witness ==
    \/ /\ threw
       /\ lastCall.method = "setChildren"
       /\ children # lastCall.ch
    \/ /\ ~threw
       /\ lastCall.method = "switchParentKeepTransform"
       /\ parent # lastCall.par

\* the 9 cublets of the snapshot at the affected indices of the current rotation
CubletsOfSnapshot ==
    Select(cubeletsBeforeRotation,
           getRotationInfo(curRotation[1], curRotation[2], 0).indices)

(* C12: pivot invariant: while no rotation is in progress the pivot has the   *)
(* identity local transform and no children; from the START of a rotation    *)
(* until its END the pivot's children are the 9 cublets of the snapshot at   *)
(* the affected indices.                                                     *)
C12_PivotInvariant ==
    /\ curRotation = NoRotation =>
           /\ localTransform[TEMP] = identityMat4
           /\ children[TEMP] = <<>>
    /\ (curRotation # NoRotation /\ calls # <<>> /\ ~LastCallIs(END_ROTATE)) =>
           /\ Len(children[TEMP]) = 9
           /\ children[TEMP] = CubletsOfSnapshot

\* the step is a call of rotateRubiksCubeSide by updateRubiksCube with rotateState
\* (a DO_ROTATE that follows a DO_ROTATE leaves calls as it is)
CallsNow(rotateState) ==
    /\ calls' # calls
    /\ calls' # <<>>
    /\ calls'[Len(calls')] = rotateState

IsRotatedTable(table, snapshot, indices, newIndices) ==
    /\ Len(snapshot) = 27
    /\ Len(table) = 27
    /\ \A k \in 1..9 : table[newIndices[k] + 1] = snapshot[indices[k] + 1]
    /\ \A i \in 0..26 :
           (\A k \in 1..9 : newIndices[k] # i) => table[i + 1] = snapshot[i + 1]
    /\ Cardinality({i \in 0..26 : \A k \in 1..9 : newIndices[k] # i}) = 18

(* C14: when a frame carries out END_ROTATE, the container's child order      *)
(* afterwards is the snapshot taken at START with snapshot[affectedIndices[k]] *)
(* at destinationIndices[k] for k = 0..8 and the other 18 slots unchanged.    *)
C14_BulkPermutation ==
    [][ (CallsNow(END_ROTATE) /\ ~threw') =>
            IsRotatedTable(SlotTable', cubeletsBeforeRotation,
                getRotationInfo(curRotation[1], curRotation[2], ROTATION_TIME_MS).indices,
                getRotationInfo(curRotation[1], curRotation[2], ROTATION_TIME_MS).newIndices)
      ]_vars

\* the step is the keyup of a key that was down
Released(keyName) == keyName \in keyState /\ keyName \notin keyState'

\* the rotation keys among the keys pressed
RotationKeysPressed == {k \in KeysPressed : \E i \in 1..9 : ROTATION_KEYS[i] = k}

(* C15: every press-and-release of a rotation key results in exactly one      *)
(* accepted rotation command, however briefly the key is held; so when a     *)
(* rotation key is released, a command has been accepted.                    *)
C15_OneCommandPerKeyPress ==
    [][ \A k \in RotationKeysPressed : Released(k) => nCommands' >= 1 ]_vars

\* the step is a frame in which the input mapper accepts a command
Accepts == nCommands' = nCommands + 1

(* C16: cooldown: a command that is accepted sets the cooldown to 200 ms, and *)
(* a command is accepted only in a frame by which the frame deltas the input *)
(* mapper has been called with since the last accepted command sum to at     *)
(* least 200 ms.                                                             *)
C16_Cooldown ==
    [][ Accepts =>
            /\ rotationCountDown' = ROTATION_COOLDOWN_MS
            /\ sinceAccept'.atAccept >= ROTATION_COOLDOWN_MS
      ]_vars

\* a second command has just been accepted, a key having been held down
C16_Witness ==
    /\ nCommands = 2
    /\ timeSinceRotationStart = 0
    /\ calls = <<>>
    /\ sinceAccept.ms = 0
    /\ keyState # {}

\* the places in ROTATION_KEYS of the rotation keys held, in either letter case
HeldRotationKeys ==
    {i \in 1..9 : ROTATION_KEYS[i] \in keyState \/ toUpperCase(ROTATION_KEYS[i]) \in keyState}

\* the step is a frame in which the input mapper is called with a delta above 0
\* or accepts a command
Samples == sinceAccept' # sinceAccept

(* C17: a command that is accepted is the rotation of the first key, in the   *)
(* order g, x, b, r, z, o, u, y, d, among those held in either letter case,  *)
(* with clockwise = true exactly when Shift is held; when the mapper samples *)
(* with the cooldown elapsed and a rotation key held it accepts; with no     *)
(* rotation key held no command is accepted and the cooldown is not          *)
(* restarted.                                                                *)
C17_FirstKeyHeld ==
    [][ /\ Accepts =>
               /\ HeldRotationKeys # {}
               /\ \E i \in HeldRotationKeys :
                      /\ \A j \in HeldRotationKeys : i <= j
                      /\ curRotation' = <<ROTATIONS[i], ROTATE_CLOCKWISE_KEY \in keyState>>
        /\ (Samples /\ rotationCountDown <= 0 /\ HeldRotationKeys # {}) => Accepts
        /\ HeldRotationKeys = {} =>
               /\ ~Accepts
               /\ rotationCountDown' <= rotationCountDown
      ]_vars

\* "left" has just been accepted with g, U and Shift all held
C17_Witness ==
    /\ keyState = {"g", "U", "Shift"}
    /\ curRotation = <<"left", TRUE>>
    /\ timeSinceRotationStart = 0
    /\ calls = <<>>

(* C18: every started rotation runs to completion. A rotation is completed *)
(* only by a frame (updateRubiksCube performs END_ROTATE and sets           *)
(* GLB.curRotation to null), and only a frame that returns requests the     *)
(* next one; so a rotation that runs to completion always has its next      *)
(* frame requested: no event leaves a current rotation without one.         *)
C18_RunsToCompletion == curRotation # NoRotation => frameLoop

\* the step is a callback of onMouse: "enter" or "exit", or updateTransform called as
\* the listener of a key; a "drag" callback is any step at all while a drag is on
DragCallback ==
    \/ enteredDrag' # enteredDrag
    \/ enteredDrag /\ (LOCK_AXIS_KEY \in keyState') # (LOCK_AXIS_KEY \in keyState)

(* C19: a drag callback of onMouse (enter, drag, exit, a modifier-key         *)
(* listener) changes at most the root cube node's local transform: the slot  *)
(* table, the pivot's transform and children, every cublet's parent and      *)
(* local transform, GLB.curRotation, GLB.timeSinceRotationStart and          *)
(* GLB.rotationCountDown stay as they are.                                   *)
C19_OrbitDecoupled ==
    [][ DragCallback =>
            /\ UNCHANGED <<children, parent, cubeletsBeforeRotation, cubletsToRotate,
                           curRotation, timeSinceRotationStart, rotationCountDown>>
            /\ \A n \in GameNodes \ {RUBIKS} : localTransform'[n] = localTransform[n]
      ]_vars

\* a drag is on in the middle of a rotation, with its modifier key held
C19_Witness ==
    /\ enteredDrag
    /\ LOCK_AXIS_KEY \in keyState
    /\ curRotation # NoRotation
    /\ LastCallIs(DO_ROTATE)
    /\ Len(children[TEMP]) = 9

\* the slot table that the rotations picks[i], picks[i + 1], ... give, each carried
\* out whole
RECURSIVE ShuffledBy(_, _, _)
ShuffledBy(slots, picks, i) ==
    IF i > Len(picks) THEN slots
    ELSE ShuffledBy(ShuffledSlots(slots, picks[i][1], picks[i][2]), picks, i + 1)

\* the step is a click on the Shuffle button
Clicks == nClicks' # nClicks

(* C20: the Shuffle button takes 2 moves for easy, 5 for medium and 30 for  *)
(* hard, and a click carries out that many whole rotations at once and      *)
(* leaves the executor idle: no exception, the pivot without children and   *)
(* with the identity transform, and the container holding 27 children, the  *)
(* slot table the rotations give.                                           *)
C20_ShuffleLeavesIdle ==
    [][ Clicks =>
            /\ NumShuffles("easy") = 2 /\ NumShuffles("medium") = 5
            /\ NumShuffles("hard") = 30
            /\ ~threw'
            /\ children'[TEMP] = <<>>
            /\ localTransform'[TEMP] = identityMat4
            /\ Len(SlotTable') = 27
            /\ \E d \in Difficulties : \E picks \in [1..NumShuffles(d) -> RandomMoves] :
                   SlotTable' = ShuffledBy(SlotTable, picks, 1)
      ]_vars

(* C21: no handler is registered and no frame runs before every model and *)
(* texture load has resolved and the 27 cublets are in the container; if   *)
(* any load fails or never settles, the container holds no cublet and the  *)
(* game loop never starts.                                                 *)
C21_AllOrNothing ==
    /\ (HandlersRegistered \/ frameLoop) =>
           /\ loaded = NumModels + NumTextures
           /\ Len(children[CUBELETS]) = 27
    /\ loadFailed => (children[CUBELETS] = <<>> /\ ~frameLoop)

\* the part of C21 that holds: handlers and frames come after all the loads and the 27
\* cublets, the container holds none or all 27 of them, and a load that rejects or
\* never settles leaves it empty and the loop not started
C21_LoadsBeforeFirstFrame ==
    /\ (HandlersRegistered \/ frameLoop) =>
           /\ loaded = NumModels + NumTextures
           /\ Len(children[CUBELETS]) = 27
    /\ Len(children[CUBELETS]) \in {0, 27}
    /\ initPc \in {"rejected", "pending"} => (children[CUBELETS] = <<>> /\ ~frameLoop)

\* the heap right after rotateRubiksCubeSide(rotation, rotateClockwise, 0,
\* START_ROTATE) is called in the current state
AfterStart(mv) == rotateRubiksCubeSide(Heap, mv[1], mv[2], 0, START_ROTATE)

(* C22: with the executor idle, whatever rotations have been carried out,  *)
(* for each of the 18 rotations START_ROTATE moves 9 cublets onto the      *)
(* pivot, and the world transform of each of them right after the call is  *)
(* a proper transform equal to its world transform right before it.        *)
C22_WorldTransformContinuity ==
    \A mv \in Moves : \A h1 \in {AfterStart(mv)} :
        /\ ~h1.err
        /\ Len(h1.toRotate) = 9
        /\ \A k \in 1..9 : \A cublet \in {h1.toRotate[k]} :
               /\ h1.par[cublet] = TEMP
               /\ Transform(h1, cublet).ok
               /\ Transform(h1, cublet) = Transform(Heap, cublet)

\* after two rotations, a START gives a cublet that has been turned a local transform
\* other than the one it had under the container
C22_Witness ==
    /\ Len(history) = 2
    /\ \E mv \in Moves : \E h1 \in {AfterStart(mv)} : \E k \in 1..9 :
           /\ localTransform[h1.toRotate[k]] # identityMat4
           /\ h1.xf[h1.toRotate[k]] # localTransform[h1.toRotate[k]]

\* the slot table after the two rotations first and then second, each carried out
\* whole from the current state; <<>> if one of them throws
TableAfterBoth(first, second) ==
    LET h == ShuffleOnce(ShuffleOnce(Heap, first[1], first[2]), second[1], second[2])
    IN  IF h.err THEN <<>> ELSE h.ch[CUBELETS]

(* C23 (scenario B): from the slot table any rotations have led to,        *)
(* "left" and then "right" give the same slot table as "right" and then    *)
(* "left", for each of the four combinations of their clockwise flags.     *)
C23_ScenarioB ==
    \A cwLeft \in BOOLEAN, cwRight \in BOOLEAN :
        \A leftFirst \in {TableAfterBoth(<<"left", cwLeft>>, <<"right", cwRight>>)} :
            /\ IsPermutationOfCublets(leftFirst)
            /\ leftFirst = TableAfterBoth(<<"right", cwRight>>, <<"left", cwLeft>>)

\* "left" and then "right" have been carried out on the solved cube, and the table is
\* the one "right" and then "left" give
C23_Witness ==
    /\ Len(history) = 2
    /\ history[1][1] = "left" /\ history[2][1] = "right"
    /\ SlotTable # prevSlots /\ prevSlots # InitialSlots
    /\ SlotTable = ShuffledSlots(ShuffledSlots(InitialSlots, "right", history[2][2]),
                                 "left", history[1][2])

\* the step is a frame of a rotation that has been started: updateRubiksCube advances
\* GLB.timeSinceRotationStart and calls rotateRubiksCubeSide with DO_ROTATE or END_ROTATE
RotationFrame ==
    /\ curRotation # NoRotation
    /\ timeSinceRotationStart > 0
    /\ nClicks' = nClicks
    /\ (timeSinceRotationStart' # timeSinceRotationStart \/ calls' # calls)

\* the pivot's transform a DO_ROTATE frame leaves for the time ms since the start
PivotPoseAt(ms) ==
    multiplyMat4(getRotationInfo(curRotation[1], curRotation[2], ms).alignmentMatrix,
                 getRotationInfo(curRotation[1], curRotation[2], ms).rotationMatrix)

(* C24 as claimed: a frame of a started rotation is the END_ROTATE frame as *)
(* soon as the time since the start divided by ROTATION_TIME_MS reaches 1,  *)
(* and a DO_ROTATE frame only while that interpolation is above 0 and       *)
(* below 1.                                                                 *)
C24_AsClaimed ==
    [][ RotationFrame =>
            \/ CallsNow(END_ROTATE)
            \/ 0 < timeSinceRotationStart' /\ timeSinceRotationStart' < ROTATION_TIME_MS
      ]_vars

(* C24 (amended): a frame of a started rotation is the END_ROTATE frame on  *)
(* the first tick at which the time since the start is above                *)
(* ROTATION_TIME_MS (interpolation above 1), and END_ROTATE works with the  *)
(* interpolation 1.0: it is idle after it and every cublet is left a whole  *)
(* number of quarter turns; until then the frames are DO_ROTATE frames,     *)
(* with 0 < interpolation <= 1, and turn the pivot by that interpolation.   *)
C24_CompletesPastOne ==
    [][ RotationFrame =>
            \/ /\ CallsNow(END_ROTATE)
               /\ timeSinceRotationStart <= ROTATION_TIME_MS
               /\ \E dt \in Deltas : timeSinceRotationStart + dt > ROTATION_TIME_MS
               /\ threw' => timeSinceRotationStart' > ROTATION_TIME_MS
               /\ ~threw' =>
                      /\ curRotation' = NoRotation
                      /\ timeSinceRotationStart' = NULL
                      /\ \A c \in Cublets : localTransform'[c].ok /\ localTransform'[c].k = 0
            \/ /\ ~CallsNow(END_ROTATE)
               /\ 0 < timeSinceRotationStart'
               /\ timeSinceRotationStart' <= ROTATION_TIME_MS
               /\ curRotation' = curRotation
               /\ ~threw' => localTransform'[TEMP] = PivotPoseAt(timeSinceRotationStart')
      ]_vars

\* a DO_ROTATE frame has turned the pivot the whole quarter turn: the interpolation is
\* 1.0 and the rotation is still current
C24_Witness ==
    /\ curRotation # NoRotation
    /\ timeSinceRotationStart = ROTATION_TIME_MS
    /\ calls = <<START_ROTATE, DO_ROTATE>>
    /\ localTransform[TEMP] = PivotPoseAt(ROTATION_TIME_MS)
    /\ Len(children[TEMP]) = 9

\* the heap with the rotation mv started in the current state and turned to its final
\* pose: START_ROTATE, then DO_ROTATE with interpolation 1
AtFinalPose(mv) ==
    rotateRubiksCubeSide(AfterStart(mv), mv[1], mv[2], ROTATION_TIME_MS, DO_ROTATE)

\* ... and then ended
AfterEnd(mv) ==
    rotateRubiksCubeSide(AtFinalPose(mv), mv[1], mv[2], ROTATION_TIME_MS, END_ROTATE)

(* C25: END_ROTATE gives each of the 9 cublets of the layer the local       *)
(* transform inverse(container world) x (its world transform under the     *)
(* pivot at the final pose); once the pivot has been emptied and the        *)
(* container has its children again, the cublet is a child of the container *)
(* with the world transform it had at the final pose; the other 18 cublets  *)
(* keep their local transforms.                                             *)
C25_LockedInWithoutJump ==
    \A mv \in Moves : \A h2 \in {AtFinalPose(mv)} : \A h3 \in {AfterEnd(mv)} :
        /\ ~h3.err
        /\ h3.ch[TEMP] = <<>>
        /\ \A c \in Cublets :
               IF \E k \in 1..Len(h2.toRotate) : h2.toRotate[k] = c
               THEN /\ h3.xf[c] = InvertThenMultiply(Transform(h2, CUBELETS), Transform(h2, c))
                    /\ h3.par[c] = CUBELETS
                    /\ Occurrences(h3.ch[CUBELETS], c) = 1
                    /\ Transform(h3, c).ok
                    /\ Transform(h3, c) = Transform(h2, c)
                    /\ Transform(h3, c) # Transform(Heap, c)
               ELSE h3.xf[c] = localTransform[c]

\* two rotations have been carried out and ended, and a cublet turned by both has a
\* local transform that is neither the identity nor the one it had before the second
C25_Witness ==
    /\ Len(history) = 2
    /\ \E c \in Cublets :
           /\ localTransform[c] # identityMat4
           /\ prevTransform[c] # identityMat4
           /\ localTransform[c] # prevTransform[c]
           /\ parent[c] = CUBELETS

\* the grid position of slot idx relative to the cube's centre, in units of 0.42: the
\* translation initGameWorld gives the cublet created for that slot
GridPosition(idx) == <<Coord(idx, 0) - 1, Coord(idx, 1) - 1, Coord(idx, 2) - 1>>

\* the matrix kept by its columns m, applied to the vector v
MatApply(m, v) ==
    [r \in 1..3 |-> LET j == CHOOSE c \in 1..3 : Abs(m[c]) = r IN Sgn(m[j]) * v[j]]

\* where cublet c is in the cube's frame: its transform is a product of quarter turns
\* about the centre applied to the transform it was created with
PhysicalPosition(c) == MatApply(localTransform[c].m, GridPosition(c))

\* the slot table and the cublets' transforms describe the same arrangement
LogicalPhysicalAgreement ==
    /\ IsPermutationOfCublets(SlotTable)
    /\ \A idx \in 0..26 :
           /\ localTransform[SlotTable[idx + 1]].ok
           /\ ~localTransform[SlotTable[idx + 1]].orb
           /\ localTransform[SlotTable[idx + 1]].k = 0
           /\ PhysicalPosition(SlotTable[idx + 1]) = GridPosition(idx)

(* C26: with the executor idle after any completed rotations, of any of the *)
(* 9 names in either direction, the cublet stored at index 9x+3y+z of the   *)
(* container is at grid position (x,y,z) of the cube's frame: the           *)
(* re-assignment of the slots at END_ROTATE is the quarter turn that the    *)
(* cublets' transforms were given.                                          *)
C26_LogicalPhysicalAgreement ==
    (curRotation = NoRotation /\ frameLoop) => LogicalPhysicalAgreement

\* two rotations have been carried out and a corner cublet is two slots away from the
\* one it was created for
C26_Witness ==
    /\ Len(history) = 2
    /\ history[1][1] # history[2][1]
    /\ \E idx \in 0..26 :
           /\ SlotTable[idx + 1] = 0
           /\ prevSlots[idx + 1] # 0
           /\ idx # 0
           /\ prevSlots[1] # 0

\* numAxesCentered of the cublet created for slot idx, which is the kind of the slot
\* too: 0 corner, 1 edge, 2 face centre, 3 core
NumAxesCentered(idx) ==
    Cardinality({axis \in 0..2 : Coord(idx, axis) = 1})

\* the cublet created without a model (the node of type "empty")
CoreCublet == SlotOf(1, 1, 1)

(* C27: after any completed rotations each slot holds a cublet that was     *)
(* created with the kind of that slot (corner, edge, face centre, core),    *)
(* and slot 13 holds the core cublet, the one without a model.              *)
C27_PieceKindPreserved ==
    (curRotation = NoRotation /\ frameLoop) =>
        /\ Len(SlotTable) = 27
        /\ \A idx \in 0..26 : NumAxesCentered(SlotTable[idx + 1]) = NumAxesCentered(idx)
        /\ SlotTable[SlotOf(1, 1, 1) + 1] = CoreCublet
        /\ NumAxesCentered(CoreCublet) = 3

\* a middle layer, which the core is in, has been turned after another rotation
C27_Witness ==
    /\ Len(history) = 2
    /\ history[2][1] \in {"x-middle", "y-middle", "z-middle"}
    /\ history[1][1] \notin {"x-middle", "y-middle", "z-middle"}
    /\ SlotTable # prevSlots
    /\ \E idx \in 0..26 : NumAxesCentered(idx) = 2 /\ SlotTable[idx + 1] # idx

\* the indices rotateRubiksCubeSide gets from getRotationInfo for the current rotation
\* (they do not depend on the interpolation)
CurrentIndices == getRotationInfo(curRotation[1], curRotation[2], 0).indices

CurrentNewIndices == getRotationInfo(curRotation[1], curRotation[2], 0).newIndices

(* C28: the name and direction of an animated rotation are those of the     *)
(* tick that accepted the command: a key event never changes                *)
(* GLB.curRotation, a started rotation's GLB.curRotation changes only when  *)
(* its END_ROTATE frame sets it to null, and every frame works with it: the *)
(* START_ROTATE frame takes the cublets at its affected indices, a          *)
(* DO_ROTATE frame turns the pivot in its direction, and the END_ROTATE     *)
(* frame puts the cublets taken at START_ROTATE at its destination indices. *)
C28_FixedAtAcceptance ==
    [][ /\ keyState' # keyState => curRotation' = curRotation
        /\ (curRotation # NoRotation /\ curRotation' # curRotation) =>
               (curRotation' = NoRotation /\ CallsNow(END_ROTATE))
        /\ (CallsNow(START_ROTATE) /\ ~threw') =>
               cubletsToRotate' = Select(children[CUBELETS], CurrentIndices)
        /\ (RotationFrame /\ ~CallsNow(END_ROTATE) /\ ~threw') =>
               localTransform'[TEMP] = PivotPoseAt(timeSinceRotationStart')
        /\ (CallsNow(END_ROTATE) /\ ~threw') =>
               \A i \in 1..9 :
                   At(children'[CUBELETS], CurrentNewIndices[i]) = cubletsToRotate[i]
      ]_vars

\* "left" was accepted with Shift up and has been turned by a DO_ROTATE frame; by now
\* its key is up, and Shift and the key of another rotation are down
C28_Witness ==
    /\ curRotation = <<"left", FALSE>>
    /\ LastCallIs(DO_ROTATE)
    /\ timeSinceRotationStart > 0
    /\ keyState = {"U", ROTATE_CLOCKWISE_KEY}

(* C29: once every physical key has been released, isKeyDown is false for  *)
(* every key name and the input mapper finds no rotation key held, so that  *)
(* no further command is accepted, whatever the order of the key events     *)
(* was, Shift pressed or released between a letter's keydown and keyup      *)
(* included.                                                                *)
C29_KeyStateNeverSticks ==
    physicalDown = {} => (keyState = {} /\ HeldRotationKeys = {})

(* C30: the callbacks of the canvas's ClickAndDragHandler keep the drag     *)
(* protocol for every sequence of mouse events: a "drag" or an "exit" comes *)
(* only after an "enter" that returned true and before that enter's one     *)
(* "exit", and no "enter" comes in between; so a drag is on exactly between *)
(* such an "enter" and its "exit", the canvas then listens to mousemove,    *)
(* mouseup and mouseleave and otherwise to mousedown alone, and each of the *)
(* three modifier keys has one listener of onMouse during a drag and none   *)
(* outside.                                                                 *)
C30_DragProtocol ==
    /\ dragProtocol # "broken"
    /\ enteredDrag = (dragProtocol = "in")
    /\ mouseListeners = IF enteredDrag THEN {MOUSE_MOVE, MOUSE_UP, MOUSE_LEAVE}
                        ELSE {MOUSE_DOWN}
    /\ \A k \in DragKeys : keyListeners[k] = IF enteredDrag THEN 1 ELSE 0
    /\ enteredDrag => removes = "live"

\* a drag has been entered and left: the remove functions of its "enter" have been
\* called, and no key has a listener
C30_Witness ==
    /\ removes = "removed"
    /\ ~enteredDrag
    /\ dragProtocol = "out"
    /\ \A k \in DragKeys : keyListeners[k] = 0

====
